---- MODULE Spec2Model ----
(***************************************************************************)
(* Mock API server (server/server.js): an in-memory log store keyed by     *)
(* parser name, three GET routes and a fallback, and the one-shot timers   *)
(* that /start_parser and /start_table_process schedule.                   *)
(*                                                                         *)
(* Strings that the code inspects character by character (parser names,    *)
(* which are compared through toLowerCase) are sequences of one-character  *)
(* strings.  Strings the code only compares whole (method, args, log       *)
(* messages) are TLA+ strings.  A text built by concatenation is a         *)
(* sequence of tokens; a newline is a token of its own.                    *)
(***************************************************************************)
EXTENDS Integers, Sequences, FiniteSets, TLC

(***************************************************************************)
(* Bounds of the model.                                                    *)
(***************************************************************************)
\* connections a client may hold open at once (Spec)
MaxConn == 2
\* log entries ever recorded (Spec)
MaxAppends == 4
\* connections a client may hold open at once (SpecLong)
MaxLongConn == 1
\* log entries ever recorded (SpecLong)
MaxLongAppends == 22

(***************************************************************************)
(* Program constants.                                                      *)
(***************************************************************************)
\* if (mockLogs[logKey].length > 20)
LogLimit == 20
\* for (let i = 0; i < 500; i++)
LongLogLines == 500

(***************************************************************************)
(* Characters and String.prototype.toLowerCase / toUpperCase.              *)
(***************************************************************************)
UpperLetters ==
    <<"A","B","C","D","E","F","G","H","I","J","K","L","M",
      "N","O","P","Q","R","S","T","U","V","W","X","Y","Z">>

LowerLetters ==
    <<"a","b","c","d","e","f","g","h","i","j","k","l","m",
      "n","o","p","q","r","s","t","u","v","w","x","y","z">>

\* the letters toLowerCase changes, each with its lower-case form
LowerOf ==
    [ch \in {UpperLetters[i] : i \in 1..Len(UpperLetters)} |->
        LowerLetters[CHOOSE i \in 1..Len(UpperLetters) : UpperLetters[i] = ch]]

\* the letters toUpperCase changes, each with its upper-case form
UpperOf ==
    [ch \in {LowerLetters[i] : i \in 1..Len(LowerLetters)} |->
        UpperLetters[CHOOSE i \in 1..Len(LowerLetters) : LowerLetters[i] = ch]]

LowerChar(ch) == IF ch \in DOMAIN LowerOf THEN LowerOf[ch] ELSE ch

UpperChar(ch) == IF ch \in DOMAIN UpperOf THEN UpperOf[ch] ELSE ch

toLowerCase(s) == [i \in 1..Len(s) |-> LowerChar(s[i])]

toUpperCase(s) == [i \in 1..Len(s) |-> UpperChar(s[i])]

(***************************************************************************)
(* The log store: const mockLogs = { Sale: [], CurrencyInfo: [], ... }.    *)
(***************************************************************************)
Sale == <<"S","a","l","e">>

CurrencyInfo == <<"C","u","r","r","e","n","c","y","I","n","f","o">>

PackageIdPrice == <<"P","a","c","k","a","g","e","I","d","P","r","i","c","e">>

PackageIdSaleInfo ==
    <<"P","a","c","k","a","g","e","I","d","S","a","l","e","I","n","f","o">>

BundleIdSaleInfo ==
    <<"B","u","n","d","l","e","I","d","S","a","l","e","I","n","f","o">>

\* Object.keys(mockLogs), in insertion order
Keys == <<Sale, CurrencyInfo, PackageIdPrice, PackageIdSaleInfo, BundleIdSaleInfo>>

KeySet == {Keys[i] : i \in 1..Len(Keys)}

\* k.toLowerCase() for each k of Object.keys(mockLogs)
LowerKeys == [i \in 1..Len(Keys) |-> toLowerCase(Keys[i])]

\* a faulty comparison: the names are compared as they are spelt
MatchesCaseSensitive(parserName) ==
    {i \in 1..Len(Keys) : Keys[i] = parserName}

\* the indices k of Object.keys(mockLogs) with
\* k.toLowerCase() === parserName.toLowerCase()
Matches(parserName) ==
    LET lower == toLowerCase(parserName)
    IN  {i \in 1..Len(Keys) : LowerKeys[i] = lower}

\* whether Object.keys(mockLogs).find(...) returns a key (is not undefined)
HasKey(parserName) == Matches(parserName) # {}

\* Object.keys(mockLogs).find(...): the first matching key
FindKey(parserName) ==
    LET found == Matches(parserName)
    IN  Keys[CHOOSE i \in found : \A j \in found : i <= j]

\* the three messages the handlers record
StartRequested == "Parser start requested."

ExecutionFailed == "Parser execution FAILED."

FinishedSuccessfully == "Parser execution finished successfully."

\* the string `[${timestamp}] ${message}`
Entry(timestamp, message) == [ts |-> timestamp, message |-> message]

\* a faulty eviction: drops the last element, as Array.prototype.pop does
Pop(a) == SubSeq(a, 1, Len(a) - 1)

\* Array.prototype.shift: all but the first element
Shift(a) == SubSeq(a, 2, Len(a))

\* a faulty addLog: evicts when the length reaches the limit (>= for >)
AddLogOffByOne(logs, parserName, message, timestamp) ==
    IF HasKey(parserName)
    THEN LET logKey == FindKey(parserName)
             pushed == Append(logs[logKey], Entry(timestamp, message))
         IN  [logs EXCEPT ![logKey] =
                 IF Len(pushed) >= LogLimit THEN Shift(pushed) ELSE pushed]
    ELSE logs

\* a faulty store: every key was given the same array, so an entry pushed
\* for one job shows under all of them
AddLogSharedArray(logs, parserName, message, timestamp) ==
    IF HasKey(parserName)
    THEN [k \in DOMAIN logs |->
             LET pushed == Append(logs[k], Entry(timestamp, message))
             IN  IF Len(pushed) > LogLimit THEN Shift(pushed) ELSE pushed]
    ELSE logs

\* addLog(parserName, message) at time timestamp: the store afterwards
AddLog(logs, parserName, message, timestamp) ==
    IF HasKey(parserName)
    THEN LET logKey == FindKey(parserName)
             pushed == Append(logs[logKey], Entry(timestamp, message))
         IN  [logs EXCEPT ![logKey] =
                 IF Len(pushed) > LogLimit THEN Shift(pushed) ELSE pushed]
    ELSE logs


(***************************************************************************)
(* Texts.  A response message is a sequence of tokens: a literal piece, an *)
(* interpolated name, a timestamp prefix, a stored log entry, a line of    *)
(* the long log, or a newline.                                             *)
(***************************************************************************)
Lit(s) == [lit |-> s]

Str(s) == [str |-> s]

\* the prefix `[${new Date().toISOString()}] `
Stamp(timestamp) == [stamp |-> timestamp]

NL == Lit("\n")

\* `This is a very long log line number ${i + 1} to test the file sending
\* feature. Count: ${Math.random().toString(36).substring(2)}.` (the random
\* token is not represented)
LongLine(n) == [lineNumber |-> n]

StartLongLog == Lit("----- START LONG LOG -----")

EndLongLog == Lit("----- END LONG LOG -----")

\* a faulty join: the newest entry first
JoinNewestFirst(a) ==
    [j \in 1..(2 * Len(a) - 1) |->
        IF j % 2 = 1 THEN a[Len(a) + 1 - (j + 1) \div 2] ELSE NL]

\* Array.prototype.join('\n')
JoinNL(a) ==
    [j \in 1..(2 * Len(a) - 1) |-> IF j % 2 = 1 THEN a[(j + 1) \div 2] ELSE NL]

\* a faulty loop: it numbers the lines from 0
LongLogLoopFromZero ==
    [j \in 1..(2 * LongLogLines) |->
        LET i == (j - 1) \div 2
        IN  IF j % 2 = 1 THEN LongLine(i) ELSE NL]

\* what the loop for (let i = 0; i < 500; i++) appends: line i + 1 and "\n"
LongLogLoop ==
    [j \in 1..(2 * LongLogLines) |->
        LET i == (j - 1) \div 2
        IN  IF j % 2 = 1 THEN LongLine(i + 1) ELSE NL]

\* the text appended for 'Sale'
LongLog == <<NL, StartLongLog, NL>> \o LongLogLoop \o <<EndLongLog>>

\* a faulty placeholder: it names the key in lower case
LogsToSendLowerName(logs, logKey, timestamp) ==
    LET joined ==
            IF Len(logs[logKey]) > 0
            THEN JoinNL(logs[logKey])
            ELSE <<Stamp(timestamp), Lit("No logs recorded yet for "),
                   Str(toLowerCase(logKey)), Lit(".")>>
    IN  IF logKey = Sale /\ Len(logs[logKey]) > 0
        THEN joined \o LongLog
        ELSE joined

\* logsToSend of the /get_logs handler for the matched key
LogsToSend(logs, logKey, timestamp) ==
    LET joined ==
            IF Len(logs[logKey]) > 0
            THEN JoinNL(logs[logKey])
            ELSE <<Stamp(timestamp), Lit("No logs recorded yet for "),
                   Str(logKey), Lit(".")>>
    IN  IF logKey = Sale /\ Len(logs[logKey]) > 0
        THEN joined \o LongLog
        ELSE joined

(***************************************************************************)
(* Requests.  path is the literal prefix of the URL path that selects a    *)
(* route, tail what follows it, query the parsed query string.             *)
(***************************************************************************)
EmptyQuery == [p \in {} |-> ""]

Request(method, path, tail, query) ==
    [method |-> method, path |-> path, tail |-> tail, query |-> query]

\* !req.query[param] for a parameter whose value is a character sequence
MissingName(req, param) ==
    param \notin DOMAIN req.query \/ req.query[param] = <<>>

\* !req.query[param] for a parameter whose value is an atomic string
MissingString(req, param) ==
    param \notin DOMAIN req.query \/ req.query[param] = ""

\* a faulty route: mounted with app.use, it takes every method and every
\* path under /start_parser
RouteStartParserUse(req) == req.path = "/start_parser"

\* app.get('/start_parser', ...)
RouteStartParser(req) ==
    req.method = "GET" /\ req.path = "/start_parser" /\ req.tail = <<>>

\* app.get('/start_table_process', ...)
RouteStartTableProcess(req) ==
    req.method = "GET" /\ req.path = "/start_table_process" /\ req.tail = <<>>

\* app.get(/\/get_logs\/parser=(.+)/, ...): (.+) needs one character
RouteGetLogs(req) ==
    req.method = "GET" /\ req.path = "/get_logs/parser=" /\ Len(req.tail) >= 1

(***************************************************************************)
(* State.                                                                  *)
(***************************************************************************)
VARIABLES
    mockLogs,    \* the log store
    timers,      \* the pending setTimeout callbacks, one closure each
    sent,        \* the responses written by the last handler or callback
    now,         \* the clock read by new Date(), as a logical time
    history,     \* per key, every entry ever pushed (history variable)
    responses    \* per connection, responses written to its latest request

vars == <<mockLogs, timers, sent, now, history, responses>>

\* res.status(status).json(body) on connection conn
Response(conn, status, body) == [conn |-> conn, status |-> status, body |-> body]

\* the connection has no request waiting for its timer
Free(conn) == \A t \in timers : t.conn # conn

\* history after addLog(parserName, message)
Pushed(h, parserName, message, timestamp) ==
    IF HasKey(parserName)
    THEN [h EXCEPT ![FindKey(parserName)] = Append(@, Entry(timestamp, message))]
    ELSE h

\* the clock after addLog(parserName, ...)
Later(parserName) == IF HasKey(parserName) THEN now + 1 ELSE now

InitOver(conns) ==
    /\ mockLogs = [k \in KeySet |-> <<>>]
    /\ timers = {}
    /\ sent = <<>>
    /\ now = 0
    /\ history = [k \in KeySet |-> <<>>]
    /\ responses = [c \in conns |-> 0]

(***************************************************************************)
(* The handlers.  sent holds what the step wrote; responses counts what    *)
(* has been written to the request the connection carries.                 *)
(***************************************************************************)
\* a request arrives on the connection and is answered in the same step
Answer(conn, status, body) ==
    /\ responses' = [responses EXCEPT ![conn] = 1]
    /\ sent' = <<Response(conn, status, body)>>

\* a request arrives on the connection and its answer is left to a timer
Defer(conn) ==
    /\ responses' = [responses EXCEPT ![conn] = 0]
    /\ sent' = <<>>

\* a faulty callback: it ends without writing the response
LoseAnswer(conn, status, body) ==
    /\ sent' = <<>>
    /\ UNCHANGED responses

\* a timer callback answers the request of the connection
AnswerLater(conn, status, body) ==
    /\ responses' = [responses EXCEPT ![conn] = @ + 1]
    /\ sent' = <<Response(conn, status, body)>>

\* a faulty closure: the callback names the job by the resolved key
ParserTimerCanonical(conn, parserName, effectiveParserName) ==
    [conn |-> conn, route |-> "/start_parser", parserName |-> effectiveParserName,
     effectiveParserName |-> effectiveParserName]

\* the closure handed to setTimeout by /start_parser
ParserTimer(conn, parserName, effectiveParserName) ==
    [conn |-> conn, route |-> "/start_parser", parserName |-> parserName,
     effectiveParserName |-> effectiveParserName]

\* the closure handed to setTimeout by /start_table_process
TableTimer(conn, methodName) ==
    [conn |-> conn, route |-> "/start_table_process", methodName |-> methodName]

\* a faulty resolution: the name as the client spelt it
AsRequested(parserName) == parserName

\* logKey || parserName
EffectiveParserName(parserName) ==
    IF HasKey(parserName) THEN FindKey(parserName) ELSE parserName

\* a faulty /start_parser handler: records nothing when the request arrives
StartParserNoLog(conn, req) ==
    /\ RouteStartParser(req)
    /\ IF MissingName(req, "parser")
       THEN /\ Answer(conn, 400,
                   [status |-> 400,
                    message |-> <<Lit("Query parameter \"parser\" is required")>>])
            /\ UNCHANGED <<mockLogs, timers, now, history>>
       ELSE LET parserName == req.query["parser"]
                effectiveParserName == EffectiveParserName(parserName)
            IN  /\ timers' = timers \cup
                       {ParserTimer(conn, parserName, effectiveParserName)}
                /\ Defer(conn)
                /\ UNCHANGED <<mockLogs, now, history>>

\* a faulty /start_parser handler: the 400 branch lacks its return, and the
\* handler goes on to schedule the timer
StartParserNoReturn(conn, req) ==
    /\ RouteStartParser(req)
    /\ IF MissingName(req, "parser")
       THEN /\ Answer(conn, 400,
                   [status |-> 400,
                    message |-> <<Lit("Query parameter \"parser\" is required")>>])
            /\ timers' = timers \cup {ParserTimer(conn, <<>>, <<>>)}
            /\ UNCHANGED <<mockLogs, now, history>>
       ELSE LET parserName == req.query["parser"]
                effectiveParserName == EffectiveParserName(parserName)
            IN  /\ mockLogs' = AddLog(mockLogs, effectiveParserName, StartRequested, now)
                /\ history' = Pushed(history, effectiveParserName, StartRequested, now)
                /\ now' = Later(effectiveParserName)
                /\ timers' = timers \cup
                       {ParserTimer(conn, parserName, effectiveParserName)}
                /\ Defer(conn)

\* a faulty /start_parser handler: it rejects a name that matches no key
\* with the 404 of /get_logs
StartParserKnownOnly(conn, req) ==
    /\ RouteStartParser(req)
    /\ IF MissingName(req, "parser")
       THEN /\ Answer(conn, 400,
                   [status |-> 400,
                    message |-> <<Lit("Query parameter \"parser\" is required")>>])
            /\ UNCHANGED <<mockLogs, timers, now, history>>
       ELSE IF ~HasKey(req.query["parser"])
       THEN /\ Answer(conn, 404,
                   [status |-> 404,
                    message |-> <<Lit("No logs found for unknown parser: "),
                                  Str(req.query["parser"])>>])
            /\ UNCHANGED <<mockLogs, timers, now, history>>
       ELSE LET parserName == req.query["parser"]
                effectiveParserName == EffectiveParserName(parserName)
            IN  /\ mockLogs' = AddLog(mockLogs, effectiveParserName, StartRequested, now)
                /\ history' = Pushed(history, effectiveParserName, StartRequested, now)
                /\ now' = Later(effectiveParserName)
                /\ timers' = timers \cup
                       {ParserTimer(conn, parserName, effectiveParserName)}
                /\ Defer(conn)

\* app.get('/start_parser', (req, res) => ...) up to and including setTimeout
StartParser(conn, req) ==
    /\ RouteStartParser(req)
    /\ IF MissingName(req, "parser")
       THEN /\ Answer(conn, 400,
                   [status |-> 400,
                    message |-> <<Lit("Query parameter \"parser\" is required")>>])
            /\ UNCHANGED <<mockLogs, timers, now, history>>
       ELSE LET parserName == req.query["parser"]
                effectiveParserName == EffectiveParserName(parserName)
            IN  /\ mockLogs' = AddLog(mockLogs, effectiveParserName, StartRequested, now)
                /\ history' = Pushed(history, effectiveParserName, StartRequested, now)
                /\ now' = Later(effectiveParserName)
                /\ timers' = timers \cup
                       {ParserTimer(conn, parserName, effectiveParserName)}
                /\ Defer(conn)

\* a faulty callback: records a success whatever the outcome
AlwaysFinished(shouldFail) == FinishedSuccessfully

\* the message the callback records for its outcome
CompletionMessage(shouldFail) ==
    IF shouldFail THEN ExecutionFailed ELSE FinishedSuccessfully

\* a faulty callback: the success branch answers without recording its entry
ParserTimerFiresUnlogged(t, random) ==
    /\ t \in timers
    /\ t.route = "/start_parser"
    /\ LET shouldFail == t.effectiveParserName = CurrencyInfo /\ random
       IN  /\ timers' = timers \ {t}
           /\ IF shouldFail
              THEN /\ mockLogs' = AddLog(mockLogs, t.effectiveParserName,
                                         ExecutionFailed, now)
                   /\ history' = Pushed(history, t.effectiveParserName,
                                        ExecutionFailed, now)
                   /\ now' = Later(t.effectiveParserName)
                   /\ AnswerLater(t.conn, 500,
                          [status |-> 500,
                           message |-> <<Lit("Mock error during "), Str(t.parserName),
                                         Lit(" parsing")>>,
                           parser |-> t.parserName])
              ELSE /\ UNCHANGED <<mockLogs, history, now>>
                   /\ AnswerLater(t.conn, 200,
                          [status |-> 200,
                           message |-> <<Lit("Parser "), Str(t.parserName),
                               Lit(" started and finished successfully (mock).")>>,
                           parser |-> t.parserName])

\* a faulty timer: scheduled with setInterval, it stays pending after it ran
ParserTimerRepeats(t, random) ==
    /\ t \in timers
    /\ t.route = "/start_parser"
    /\ LET shouldFail == t.effectiveParserName = CurrencyInfo /\ random
           message == CompletionMessage(shouldFail)
       IN  /\ mockLogs' = AddLog(mockLogs, t.effectiveParserName, message, now)
           /\ history' = Pushed(history, t.effectiveParserName, message, now)
           /\ now' = Later(t.effectiveParserName)
           /\ UNCHANGED timers
           /\ IF shouldFail
              THEN AnswerLater(t.conn, 500,
                       [status |-> 500,
                        message |-> <<Lit("Mock error during "), Str(t.parserName),
                                      Lit(" parsing")>>,
                        parser |-> t.parserName])
              ELSE AnswerLater(t.conn, 200,
                       [status |-> 200,
                        message |-> <<Lit("Parser "), Str(t.parserName),
                            Lit(" started and finished successfully (mock).")>>,
                        parser |-> t.parserName])

\* the callback of /start_parser's setTimeout; random is Math.random() < 0.2
ParserTimerFires(t, random) ==
    /\ t \in timers
    /\ t.route = "/start_parser"
    /\ LET shouldFail == t.effectiveParserName = CurrencyInfo /\ random
           message == CompletionMessage(shouldFail)
       IN  /\ mockLogs' = AddLog(mockLogs, t.effectiveParserName, message, now)
           /\ history' = Pushed(history, t.effectiveParserName, message, now)
           /\ now' = Later(t.effectiveParserName)
           /\ timers' = timers \ {t}
           /\ IF shouldFail
              THEN AnswerLater(t.conn, 500,
                       [status |-> 500,
                        message |-> <<Lit("Mock error during "), Str(t.parserName),
                                      Lit(" parsing")>>,
                        parser |-> t.parserName])
              ELSE AnswerLater(t.conn, 200,
                       [status |-> 200,
                        message |-> <<Lit("Parser "), Str(t.parserName),
                            Lit(" started and finished successfully (mock).")>>,
                        parser |-> t.parserName])

\* a faulty /start_table_process handler: the args check of set_shop_price
\* rejects the request instead of logging a warning
StartTableProcessChecksArgs(conn, req) ==
    /\ RouteStartTableProcess(req)
    /\ IF MissingString(req, "method")
       THEN /\ Answer(conn, 400,
                   [status |-> 400,
                    message |-> <<Lit("Query parameter \"method\" is required")>>])
            /\ UNCHANGED <<mockLogs, timers, now, history>>
       ELSE IF /\ req.query["method"] = "set_shop_price"
               /\ ("args" \notin DOMAIN req.query \/ req.query["args"] # "[\"main\"]")
       THEN /\ Answer(conn, 400,
                   [status |-> 400,
                    message |-> <<Lit("Expected args='[\"main\"]' for set_shop_price")>>])
            /\ UNCHANGED <<mockLogs, timers, now, history>>
       ELSE /\ timers' = timers \cup {TableTimer(conn, req.query["method"])}
            /\ Defer(conn)
            /\ UNCHANGED <<mockLogs, now, history>>

\* app.get('/start_table_process', (req, res) => ...) up to setTimeout; the
\* check of args for set_shop_price (lines 97-99) only logs a warning
StartTableProcess(conn, req) ==
    /\ RouteStartTableProcess(req)
    /\ IF MissingString(req, "method")
       THEN /\ Answer(conn, 400,
                   [status |-> 400,
                    message |-> <<Lit("Query parameter \"method\" is required")>>])
            /\ UNCHANGED <<mockLogs, timers, now, history>>
       ELSE /\ timers' = timers \cup {TableTimer(conn, req.query["method"])}
            /\ Defer(conn)
            /\ UNCHANGED <<mockLogs, now, history>>

\* the callback of /start_table_process's setTimeout
TableTimerFires(t) ==
    /\ t \in timers
    /\ t.route = "/start_table_process"
    /\ timers' = timers \ {t}
    /\ AnswerLater(t.conn, 200,
           [status |-> 200,
            message |-> <<Lit("Table process "), Lit(t.methodName),
                          Lit(" finished successfully (mock).")>>,
            method |-> t.methodName])
    /\ UNCHANGED <<mockLogs, now, history>>

\* a faulty lookup: an unknown name is answered 200 with an empty text
GetLogsBodyNo404(logs, parserName, timestamp) ==
    IF ~HasKey(parserName)
    THEN [status |-> 200, message |-> <<>>]
    ELSE [status |-> 200,
          message |-> LogsToSend(logs, FindKey(parserName), timestamp)]

\* the body the /get_logs handler sends for the captured name
GetLogsBody(logs, parserName, timestamp) ==
    IF ~HasKey(parserName)
    THEN [status |-> 404,
          message |-> <<Lit("No logs found for unknown parser: "), Str(parserName)>>]
    ELSE [status |-> 200,
          message |-> LogsToSend(logs, FindKey(parserName), timestamp)]

\* app.get(/\/get_logs\/parser=(.+)/, (req, res) => ...)
GetLogs(conn, req) ==
    /\ RouteGetLogs(req)
    /\ LET body == GetLogsBody(mockLogs, req.tail, now)
       IN  Answer(conn, body.status, body)
    /\ UNCHANGED <<mockLogs, timers, now, history>>

\* app.use((req, res) => ...): no route above matched
NotFound(conn, req) ==
    /\ ~RouteStartParser(req)
    /\ ~RouteStartTableProcess(req)
    /\ ~RouteGetLogs(req)
    /\ Answer(conn, 404, [status |-> 404, message |-> <<Lit("Endpoint not found")>>])
    /\ UNCHANGED <<mockLogs, timers, now, history>>

(***************************************************************************)
(* The requests a client sends, and the two specifications: Spec sends     *)
(* every kind of name on a few requests, SpecLong few names on enough      *)
(* requests to fill a log past its limit.                                  *)
(***************************************************************************)
\* the spellings of a key that clients are given to use
Casings(key) == {key, toLowerCase(key), toUpperCase(key)}

\* a spelling of Sale in mixed case
MixedSale == <<"s","A","l","E">>

\* names that match no key
UnknownNames == {<<"F","o","o">>, <<"S","a","l","e","s">>}

KnownNames == UNION {Casings(Keys[i]) : i \in 1..Len(Keys)}

ParserNames ==
    KeySet \cup Casings(Sale) \cup Casings(CurrencyInfo) \cup {<<"F","o","o">>}

LogNames == KnownNames \cup {MixedSale} \cup UnknownNames

LongParserNames == {Sale, toLowerCase(Sale)}

LongLogNames == {Sale, toLowerCase(CurrencyInfo), <<"F","o","o">>}

StartParserRequests(names) ==
    {Request("GET", "/start_parser", <<>>, q) :
        q \in {[parser |-> n] : n \in names \cup {<<>>}} \cup {EmptyQuery}}

StartTableProcessRequests ==
    {Request("GET", "/start_table_process", <<>>, q) :
        q \in {[method |-> m] : m \in {"set_final_price", ""}}
              \cup {[method |-> "set_shop_price", args |-> a] :
                        a \in {"[\"main\"]", "[\"wrong\"]"}}
              \cup {[args |-> "[\"main\"]"]}}

GetLogsRequests(names) ==
    {Request("GET", "/get_logs/parser=", n, EmptyQuery) : n \in names}

OtherRequests ==
    { Request("GET", "/foo", <<>>, EmptyQuery),
      Request("GET", "/get_logs/parser=", <<>>, EmptyQuery),
      Request("POST", "/start_parser", <<>>, [parser |-> Sale]),
      Request("GET", "/start_parser", <<"x">>, [parser |-> Sale]) }

\* the entries that the pending /start_parser timers will still record
Owed == Cardinality({t \in timers : t.route = "/start_parser"
                                     /\ t.effectiveParserName \in KeySet})

\* a request may be sent while the entries it records stay within the bound
Room(req, maxAppends) ==
    (~MissingName(req, "parser") /\ HasKey(req.query["parser"]))
        => now + Owed + 2 <= maxAppends

\* a new request arrives on the lowest-numbered connection that is free
\* (connections are interchangeable, so this loses no behaviour)
Accepts(conns, conn) ==
    /\ Free(conn)
    /\ \A other \in conns : Free(other) => conn <= other

ReceiveStartParser(conns, requests, maxAppends) ==
    \E conn \in conns, req \in requests :
        Accepts(conns, conn) /\ Room(req, maxAppends) /\ StartParser(conn, req)

ReceiveStartTableProcess(conns) ==
    \E conn \in conns, req \in StartTableProcessRequests :
        Accepts(conns, conn) /\ StartTableProcess(conn, req)

ReceiveGetLogs(conns, requests) ==
    \E conn \in conns, req \in requests :
        Accepts(conns, conn) /\ GetLogs(conn, req)

ReceiveOther(conns) ==
    \E conn \in conns, req \in OtherRequests :
        Accepts(conns, conn) /\ NotFound(conn, req)

ParserTimeout == \E t \in timers, random \in BOOLEAN : ParserTimerFires(t, random)

TableTimeout == \E t \in timers : TableTimerFires(t)

Conns == 1..MaxConn

LongConns == 1..MaxLongConn

ParserRequests == StartParserRequests(ParserNames)

LogRequests == GetLogsRequests(LogNames)

LongParserRequests == StartParserRequests(LongParserNames)

LongLogRequests == GetLogsRequests(LongLogNames)

Init == InitOver(Conns)

Next ==
    \/ ReceiveStartParser(Conns, ParserRequests, MaxAppends)
    \/ ReceiveStartTableProcess(Conns)
    \/ ReceiveGetLogs(Conns, LogRequests)
    \/ ReceiveOther(Conns)
    \/ ParserTimeout
    \/ TableTimeout

Spec == Init /\ [][Next]_vars

InitLong == InitOver(LongConns)

NextLong ==
    \/ ReceiveStartParser(LongConns, LongParserRequests, MaxLongAppends)
    \/ ReceiveStartTableProcess(LongConns)
    \/ ReceiveGetLogs(LongConns, LongLogRequests)
    \/ ReceiveOther(LongConns)
    \/ ParserTimeout
    \/ TableTimeout

SpecLong == InitLong /\ [][NextLong]_vars

\* the timer of the request on the connection fires
TimeoutOn(conn) ==
    \E t \in timers :
        /\ t.conn = conn
        /\ \/ \E random \in BOOLEAN : ParserTimerFires(t, random)
           \/ TableTimerFires(t)

\* Spec with every scheduled timer firing once its delay has elapsed
FairSpec == Spec /\ \A conn \in Conns : WF_vars(TimeoutOn(conn))

(***************************************************************************)
(* Properties.                                                             *)
(***************************************************************************)
\* new is old with one entry pushed, and the oldest entry dropped if that
\* made it longer than the limit
PushedOne(old, new) ==
    /\ Len(new) >= 1
    /\ IF Len(old) < LogLimit
       THEN new = Append(old, new[Len(new)])
       ELSE new = Append(Tail(old), new[Len(new)])

\* C1: every log holds at most 20 entries in every reachable state, and a
\* step that changes a log appends one entry to it and, if that makes it
\* longer than 20, removes exactly the oldest entry.
C1_BoundedFifo ==
    [][\A k \in KeySet :
           /\ Len(mockLogs[k]) <= LogLimit
           /\ Len(mockLogs'[k]) <= LogLimit
           /\ (mockLogs'[k] # mockLogs[k] => PushedOne(mockLogs[k], mockLogs'[k]))]_vars

\* a 21st entry was pushed to Sale's full log and the oldest one is gone
C1_Witness ==
    /\ Len(history[Sale]) = LogLimit + 1
    /\ Len(mockLogs[Sale]) = LogLimit
    /\ mockLogs[Sale][1] # history[Sale][1]

\* C2: every log equals the last min(20, n) of the n entries ever pushed
\* for its key, in the order they were pushed.
C2_LastOfHistory ==
    \A k \in KeySet :
        LET n == Len(history[k])
            m == IF n < LogLimit THEN n ELSE LogLimit
        IN  /\ Len(mockLogs[k]) = m
            /\ \A i \in 1..m : mockLogs[k][i] = history[k][n - m + i]

\* two entries were evicted from Sale's log: it starts at the third entry
C2_Witness ==
    /\ Len(history[Sale]) = LogLimit + 2
    /\ mockLogs[Sale][1] = history[Sale][3]
    /\ mockLogs[Sale][LogLimit] = history[Sale][LogLimit + 2]

\* the name is a spelling of the key, letter case aside
Spells(name, k) == toLowerCase(name) = toLowerCase(k)

\* new is old with exactly one entry pushed, whose message is among messages
PushedMessage(old, new, messages) ==
    /\ PushedOne(old, new)
    /\ new[Len(new)].message \in messages

\* all logs but that of key k are unchanged by the step
OthersUnchanged(k) == \A other \in KeySet \ {k} : mockLogs'[other] = mockLogs[other]

\* the /start_parser closures the step schedules: one per request received
\* with a name
Scheduled == {t \in timers' \ timers : t.route = "/start_parser"}

\* the /start_parser closures the step runs
Fired == {t \in timers \ timers' : t.route = "/start_parser"}

\* C3: a /start_parser request naming a known job pushes exactly one "start
\* requested" entry in the step that receives it, which sends no response
\* yet; the firing of its timer pushes exactly one completion entry
\* ("finished successfully" with the 200, "FAILED" with the 500); and no
\* other step pushes anything, so a request pushes no more than these two.
C3_StartThenCompletion ==
    [][/\ \A t \in Scheduled, k \in KeySet :
              Spells(t.parserName, k)
              => /\ PushedMessage(mockLogs[k], mockLogs'[k], {StartRequested})
                 /\ OthersUnchanged(k)
                 /\ sent' = <<>>
       /\ \A t \in Fired, k \in KeySet :
              Spells(t.parserName, k)
              => /\ Len(sent') = 1
                 /\ sent'[1].conn = t.conn
                 /\ \/ /\ sent'[1].status = 200
                       /\ PushedMessage(mockLogs[k], mockLogs'[k],
                                        {FinishedSuccessfully})
                    \/ /\ sent'[1].status = 500
                       /\ PushedMessage(mockLogs[k], mockLogs'[k], {ExecutionFailed})
                 /\ OthersUnchanged(k)
       /\ Cardinality(Scheduled) + Cardinality(Fired) <= 1
       /\ \A k \in KeySet :
              mockLogs'[k] # mockLogs[k]
              => \E t \in Scheduled \cup Fired : Spells(t.parserName, k)]_vars

\* a request for CurrencyInfo in lower case was answered 500 and the log
\* holds its two entries, start then failure
C3_Witness ==
    /\ Len(sent) = 1
    /\ sent[1].status = 500
    /\ sent[1].body.parser = toLowerCase(CurrencyInfo)
    /\ Len(mockLogs[CurrencyInfo]) = 2
    /\ mockLogs[CurrencyInfo][1].message = StartRequested
    /\ mockLogs[CurrencyInfo][2].message = ExecutionFailed

\* the request carries no parser parameter, or an empty one
NoParser(req) == "parser" \notin DOMAIN req.query \/ Len(req.query["parser"]) = 0

ParserRequired == <<Lit("Query parameter \"parser\" is required")>>

\* C4: a /start_parser request without a parser parameter is answered 400
\* in the step that receives it; that step schedules no timer and leaves
\* the log store as it was.
C4_MissingParserIs400 ==
    [][\A conn \in Conns, req \in ParserRequests :
           (NoParser(req) /\ StartParser(conn, req))
           => /\ Len(sent') = 1
              /\ sent'[1].conn = conn
              /\ sent'[1].status = 400
              /\ sent'[1].body = [status |-> 400, message |-> ParserRequired]
              /\ timers' = timers
              /\ mockLogs' = mockLogs]_vars

\* the 400 was sent while another request waited for its timer and a log
\* held an entry
C4_Witness ==
    /\ Len(sent) = 1
    /\ sent[1].status = 400
    /\ sent[1].body.message = ParserRequired
    /\ timers # {}
    /\ mockLogs[Sale] # <<>>

\* the callback of timer t can run and answer with the status
CanAnswer(t, status) ==
    ENABLED (\E random \in BOOLEAN :
                 ParserTimerFires(t, random) /\ sent'[1].status = status)

\* the callback of timer t can run and answer with another status than 200
CanAnswerOtherThan200(t) ==
    ENABLED (\E random \in BOOLEAN :
                 ParserTimerFires(t, random) /\ sent'[1].status # 200)

\* C5: a 500 is sent only to a request whose name resolves to CurrencyInfo;
\* a pending request for any other name, known or not, can only be
\* answered 200; a pending request for CurrencyInfo in any letter case can
\* be answered 200 and can be answered 500.
C5_OnlyCurrencyInfoFails ==
    /\ \A i \in 1..Len(sent) :
           sent[i].status = 500 => Spells(sent[i].body.parser, CurrencyInfo)
    /\ \A t \in timers :
           t.route = "/start_parser"
           => IF Spells(t.parserName, CurrencyInfo)
              THEN CanAnswer(t, 200) /\ CanAnswer(t, 500)
              ELSE CanAnswer(t, 200) /\ ~CanAnswerOtherThan200(t)

\* a request for CurrencyInfo in upper case was answered 500 while one in
\* lower case is pending
C5_Witness ==
    /\ Len(sent) = 1
    /\ sent[1].status = 500
    /\ sent[1].body.parser = toUpperCase(CurrencyInfo)
    /\ \E t \in timers : t.route = "/start_parser"
                         /\ t.parserName = toLowerCase(CurrencyInfo)

\* the last step answered the request of the connection from its timer
Answered(conn) ==
    /\ Len(sent) = 1
    /\ sent[1].conn = conn
    /\ sent[1].status \in {200, 500}
    /\ responses[conn] = 1
    /\ Free(conn)

\* C6: a scheduled timer is never cancelled (a closure leaves the pending
\* set only in a step that answers its request with 200 or 500), and when
\* every timer fires once its delay has elapsed, each request waiting for
\* its timer is eventually answered, whatever else is in flight.
C6_TimersAlwaysAnswer ==
    /\ [][\A t \in timers \ timers' :
              /\ Len(sent') = 1
              /\ sent'[1].conn = t.conn
              /\ sent'[1].status \in {200, 500}]_vars
    /\ \A conn \in Conns : (~Free(conn)) ~> Answered(conn)

\* a request was answered from its timer while another was still waiting
C6_Witness == \E conn \in Conns : Answered(conn) /\ timers # {}

\* the newest entry of key k's log carries the message and is the entry
\* recorded last in the whole store
JustLogged(k, message) ==
    /\ mockLogs[k] # <<>>
    /\ mockLogs[k][Len(mockLogs[k])] = Entry(now - 1, message)

\* C7: when a /start_parser request is answered 500, its "FAILED" entry is
\* already in CurrencyInfo's log, and when a request for a known job is
\* answered 200, its "finished successfully" entry is already in that
\* job's log: the entry is recorded before the response is written.
C7_LoggedBeforeAnswer ==
    \A i \in 1..Len(sent) :
        /\ sent[i].status = 500 => JustLogged(CurrencyInfo, ExecutionFailed)
        /\ (sent[i].status = 200 /\ "parser" \in DOMAIN sent[i].body)
           => \A k \in KeySet :
                  Spells(sent[i].body.parser, k)
                  => JustLogged(k, FinishedSuccessfully)

\* a request for sale was answered 200 after a failed CurrencyInfo run, both
\* entries being in their logs
C7_Witness ==
    /\ Len(sent) = 1
    /\ sent[1].status = 200
    /\ "parser" \in DOMAIN sent[1].body
    /\ sent[1].body.parser = toLowerCase(Sale)
    /\ JustLogged(Sale, FinishedSuccessfully)
    /\ Len(mockLogs[CurrencyInfo]) = 2
    /\ mockLogs[CurrencyInfo][2].message = ExecutionFailed

\* for each name a /get_logs request may carry, the keys it spells
SpeltBy == [name \in LogNames |-> {k \in KeySet : Spells(name, k)}]

\* the placeholder sent for a key without entries
NoLogsYet(k) == <<Stamp(now), Lit("No logs recorded yet for "), Str(k), Lit(".")>>

\* the last step answered a /get_logs request with the message
SentLogs(message) ==
    /\ Len(sent) = 1
    /\ sent[1].status = 200
    /\ sent[1].body = [status |-> 200, message |-> message]

\* C8: for every known name in every letter case, a /get_logs request made
\* while that job's log is empty is answered 200 with the single "No logs
\* recorded yet" placeholder, which names the canonical key and not the
\* spelling of the request.
C8_EmptyLogPlaceholder ==
    \A name \in LogNames :
        \A k \in SpeltBy[name] :
            mockLogs[k] = <<>>
            => GetLogsBody(mockLogs, name, now) =
                   [status |-> 200, message |-> NoLogsYet(k)]

\* the placeholder for BundleIdSaleInfo was sent while other logs held
\* entries
C8_Witness ==
    /\ SentLogs(NoLogsYet(BundleIdSaleInfo))
    /\ mockLogs[BundleIdSaleInfo] = <<>>
    /\ mockLogs[Sale] # <<>>

\* C9: a /get_logs request for a known job with a non-empty log is answered
\* 200 with a message that holds every stored entry of the job, oldest
\* first, with a newline between consecutive entries; for every job other
\* than Sale the message holds nothing else.
C9_AllEntriesJoined ==
    \A name \in LogNames :
        \A k \in SpeltBy[name] :
            Len(mockLogs[k]) > 0
            => LET body == GetLogsBody(mockLogs, name, now)
                   n == Len(mockLogs[k])
               IN  /\ body.status = 200
                   /\ Len(body.message) >= 2 * n - 1
                   /\ \A i \in 1..n : body.message[2 * i - 1] = mockLogs[k][i]
                   /\ \A i \in 1..(n - 1) : body.message[2 * i] = NL
                   /\ k # Sale => Len(body.message) = 2 * n - 1

\* the three entries of CurrencyInfo's log were sent, oldest first
C9_Witness ==
    /\ Len(mockLogs[CurrencyInfo]) = 3
    /\ SentLogs(<<mockLogs[CurrencyInfo][1], NL, mockLogs[CurrencyInfo][2], NL,
                  mockLogs[CurrencyInfo][3]>>)
    /\ mockLogs[CurrencyInfo][1].ts < mockLogs[CurrencyInfo][3].ts

\* the token belongs to the long log block
InLongLog(token) ==
    token \in {StartLongLog, EndLongLog} \/ "lineNumber" \in DOMAIN token

\* the long log block: a newline, the START marker, a newline, the 500
\* lines numbered 1..500 with a newline after each, the END marker
LongLogBlock ==
    <<NL, StartLongLog, NL>>
        \o [p \in 1..(2 * LongLogLines) |->
               IF p % 2 = 0 THEN NL ELSE LongLine((p + 1) \div 2)]
        \o <<EndLongLog>>

\* the number of lines between the markers of the long log block
LongLogBlockLines ==
    Cardinality({i \in 1..Len(LongLogBlock) :
                    "lineNumber" \in DOMAIN LongLogBlock[i]})

\* the message is n stored lines, none of them part of the block, followed
\* by the long log block and nothing else
EndsWithLongLog(message, n) ==
    LET base == 2 * n - 1
    IN  /\ Len(message) = base + Len(LongLogBlock)
        /\ \A i \in 1..base : ~InLongLog(message[i])
        /\ SubSeq(message, base + 1, Len(message)) = LongLogBlock
        /\ LongLogBlockLines = LongLogLines

\* C10: the message of a /get_logs response ends with the long log block,
\* placed after the stored lines, if and only if the name resolves to Sale
\* and Sale's log holds an entry; for an empty Sale log, for any other job
\* and for an unknown name the message holds no part of the block.
C10_LongLogOnlyForSale ==
    \A name \in LogNames :
        LET body == GetLogsBody(mockLogs, name, now)
        IN  IF Sale \in SpeltBy[name] /\ Len(mockLogs[Sale]) >= 1
            THEN EndsWithLongLog(body.message, Len(mockLogs[Sale]))
            ELSE \A i \in 1..Len(body.message) : ~InLongLog(body.message[i])

\* Sale's two entries were sent followed by the long log block
C10_Witness ==
    /\ Len(mockLogs[Sale]) = 2
    /\ Len(sent) = 1
    /\ sent[1].status = 200
    /\ EndsWithLongLog(sent[1].body.message, 2)
    /\ sent[1].body.message[1] = mockLogs[Sale][1]

\* the message of the 404 sent for a name that matches no key
NoLogsFound(name) == <<Lit("No logs found for unknown parser: "), Str(name)>>

\* the /get_logs requests whose name spells no key
UnknownLogRequests == {req \in LogRequests : SpeltBy[req.tail] = {}}

\* C11: the step that receives a /get_logs request whose name spells no key
\* answers it 404 (not 200) with "No logs found for unknown parser: <name>",
\* and no step that receives a /get_logs request, whatever its name and its
\* outcome, changes the log store or the pending timers.
C11_UnknownLogsIs404 ==
    [][/\ \A conn \in Conns, req \in UnknownLogRequests :
              GetLogs(conn, req)
              => /\ sent' = <<Response(conn, 404,
                                [status |-> 404, message |-> NoLogsFound(req.tail)])>>
                 /\ sent'[1].status # 200
       /\ (mockLogs' # mockLogs \/ timers' # timers)
          => ~ReceiveGetLogs(Conns, LogRequests)]_vars

\* the 404 for the unknown name Sales was sent while Sale's log held
\* entries, which are all still there
C11_Witness ==
    /\ Len(sent) = 1
    /\ sent[1].body = [status |-> 404, message |-> NoLogsFound(<<"S","a","l","e","s">>)]
    /\ Len(mockLogs[Sale]) = 2
    /\ mockLogs[Sale] = history[Sale]

\* the name spells no key, letter case aside
SpellsNoKey(name) == \A k \in KeySet : ~Spells(name, k)

\* the /start_parser requests whose name spells no key
UnknownParserRequests ==
    {req \in ParserRequests : ~NoParser(req) /\ SpellsNoKey(req.query["parser"])}

\* the request of the connection names no key and waits for its timer
PendingUnknown(conn, name) ==
    \E t \in timers :
        t.conn = conn /\ t.route = "/start_parser" /\ t.parserName = name

\* the 200 sent for a /start_parser request that named the job so
FinishedResponse(conn, name) ==
    Response(conn, 200,
        [status |-> 200,
         message |-> <<Lit("Parser "), Str(name),
                       Lit(" started and finished successfully (mock).")>>,
         parser |-> name])

\* C12: the step that receives a /start_parser request whose name spells
\* no key answers nothing (no 400, no 404), schedules the request's timer
\* and leaves the log store as it was; while the timer is pending no step
\* answers the request; the step that runs the timer answers 200 (not
\* 500) and leaves the log store as it was; the store's keys are always
\* the five known names; and, timers firing once due, the request is
\* eventually answered 200.
C12_UnknownParserAccepted ==
    /\ [][/\ DOMAIN mockLogs = KeySet
           /\ DOMAIN mockLogs' = KeySet
           /\ \A conn \in Conns, req \in UnknownParserRequests :
                  StartParser(conn, req)
                  => /\ sent' = <<>>
                     /\ timers' \ timers =
                            {ParserTimer(conn, req.query["parser"], req.query["parser"])}
                     /\ mockLogs' = mockLogs
           /\ \A t \in timers :
                  (t.route = "/start_parser" /\ SpellsNoKey(t.parserName))
                  => IF t \in timers'
                     THEN \A i \in 1..Len(sent') : sent'[i].conn # t.conn
                     ELSE /\ sent' = <<FinishedResponse(t.conn, t.parserName)>>
                          /\ mockLogs' = mockLogs]_vars
    /\ \A conn \in Conns, req \in UnknownParserRequests :
           PendingUnknown(conn, req.query["parser"])
           ~> (sent = <<FinishedResponse(conn, req.query["parser"])>> /\ Free(conn))

\* the request for Foo was answered 200 while Sale's log held entries, none
\* of which the request added
C12_Witness ==
    /\ sent = <<FinishedResponse(1, <<"F","o","o">>)>>
    /\ \A k \in KeySet : mockLogs[k] = history[k]
    /\ Len(mockLogs[Sale]) = 2
    /\ \A k \in KeySet \ {Sale} : mockLogs[k] = <<>>
    /\ timers # {}

\* the request carries no method parameter, or an empty one
NoMethod(req) == "method" \notin DOMAIN req.query \/ req.query["method"] = ""

MethodRequired == <<Lit("Query parameter \"method\" is required")>>

\* the method names the /start_table_process requests carry
Methods ==
    {req.query["method"] : req \in {r \in StartTableProcessRequests : ~NoMethod(r)}}

\* the request of the connection waits for the timer of the table process
PendingTable(conn, methodName) ==
    \E t \in timers :
        t.conn = conn /\ t.route = "/start_table_process"
                      /\ t.methodName = methodName

\* the 200 sent for a /start_table_process request
TableFinishedResponse(conn, methodName) ==
    Response(conn, 200,
        [status |-> 200,
         message |-> <<Lit("Table process "), Lit(methodName),
                       Lit(" finished successfully (mock).")>>,
         method |-> methodName])

\* C13: the step that receives a /start_table_process request without a
\* method answers 400 and schedules nothing; with a method, whatever the
\* method and whatever args holds (set_shop_price with ["wrong"] too), it
\* answers nothing and schedules the request's timer; while the timer is
\* pending no step answers the request; the step that runs the timer
\* answers 200; none of these steps changes the log store; and, timers
\* firing once due, the request is eventually answered 200.
C13_TableProcessAlways200 ==
    /\ [][/\ \A conn \in Conns, req \in StartTableProcessRequests :
                  StartTableProcess(conn, req)
                  => /\ mockLogs' = mockLogs
                     /\ IF NoMethod(req)
                        THEN /\ sent' = <<Response(conn, 400,
                                    [status |-> 400, message |-> MethodRequired])>>
                             /\ timers' = timers
                        ELSE /\ sent' = <<>>
                             /\ timers \subseteq timers'
                             /\ timers' \ timers =
                                    {TableTimer(conn, req.query["method"])}
           /\ \A t \in timers :
                  t.route = "/start_table_process"
                  => IF t \in timers'
                     THEN \A i \in 1..Len(sent') : sent'[i].conn # t.conn
                     ELSE /\ sent' = <<TableFinishedResponse(t.conn, t.methodName)>>
                          /\ mockLogs' = mockLogs]_vars
    /\ \A conn \in Conns, methodName \in Methods :
           PendingTable(conn, methodName)
           ~> (sent = <<TableFinishedResponse(conn, methodName)>> /\ Free(conn))

\* a set_shop_price request was answered 200 on the second connection
\* while a /start_parser request waited on the first and Sale's log held
\* its start entry only
C13_Witness ==
    /\ sent = <<TableFinishedResponse(2, "set_shop_price")>>
    /\ \E t \in timers : t.conn = 1 /\ t.route = "/start_parser"
    /\ Len(mockLogs[Sale]) = 1
    /\ mockLogs[Sale] = history[Sale]

\* C14: the store's keys are the five canonical names in every state, and
\* for a /start_parser request that spells key k in any letter case, the
\* step that receives it and the step that runs its timer both resolve the
\* name to k and push their entry at the end of k's sequence, so that the
\* entries of requests for 'sale' and for 'Sale' are in one sequence.
C14_CanonicalKey ==
    [][/\ DOMAIN mockLogs = KeySet
       /\ DOMAIN mockLogs' = KeySet
       /\ \A t \in Scheduled \cup Fired, k \in KeySet :
              Spells(t.parserName, k)
              => /\ t.effectiveParserName = k
                 /\ PushedOne(mockLogs[k], mockLogs'[k])
                 /\ mockLogs'[k][Len(mockLogs'[k])].ts = now
                 /\ history'[k] = Append(history[k], mockLogs'[k][Len(mockLogs'[k])])]_vars

\* a request for sale was answered while one for Sale waits: Sale's
\* sequence holds the entries of both, and no other sequence holds any
C14_Witness ==
    /\ sent = <<FinishedResponse(1, toLowerCase(Sale))>>
    /\ \E t \in timers : t.route = "/start_parser" /\ t.parserName = Sale
    /\ Len(mockLogs[Sale]) = 3
    /\ mockLogs[Sale][1].message = StartRequested
    /\ mockLogs[Sale][2].message = StartRequested
    /\ mockLogs[Sale][3].message = FinishedSuccessfully
    /\ \A k \in KeySet \ {Sale} : mockLogs[k] = <<>>

EndpointNotFound == [status |-> 404, message |-> <<Lit("Endpoint not found")>>]

\* the request is one for the fallback: GET /foo, GET /get_logs/parser=
\* with nothing after it, POST /start_parser, GET /start_parser/x
MatchesNoRoute(req) ==
    /\ ~RouteStartParser(req)
    /\ ~RouteStartTableProcess(req)
    /\ ~RouteGetLogs(req)

\* C15: each of the requests above matches none of the three routes, and
\* the step that handles such a request answers it 404 "Endpoint not
\* found" at once, schedules no timer and leaves the log store as it was.
C15_FallbackIs404 ==
    [][\A req \in OtherRequests :
           /\ MatchesNoRoute(req)
           /\ \A conn \in Conns :
                  NotFound(conn, req)
                  => /\ sent' = <<Response(conn, 404, EndpointNotFound)>>
                     /\ timers' = timers
                     /\ mockLogs' = mockLogs]_vars

\* the fallback answered on the second connection while a /start_parser
\* request waited on the first and Sale's log held its start entry
C15_Witness ==
    /\ sent = <<Response(2, 404, EndpointNotFound)>>
    /\ \E t \in timers : t.conn = 1 /\ t.route = "/start_parser"
    /\ Len(mockLogs[Sale]) = 1
    /\ mockLogs[Sale] = history[Sale]

\* the timers pending for the request of the connection
TimersOf(pending, conn) == {t \in pending : t.conn = conn}

\* the response is the one the closure writes: to its own connection, with
\* status 200 or 500, naming the job or method its own request named
WrittenBy(t, response) ==
    /\ response.conn = t.conn
    /\ IF t.route = "/start_parser"
       THEN /\ response.status \in {200, 500}
            /\ response.body.parser = t.parserName
       ELSE /\ response.status = 200
            /\ response.body.method = t.methodName

\* C16: under every interleaving of requests and timer firings, no request
\* is sent more than one response and no request has more than one timer;
\* a request that has been answered (with 400 or 404 at once, or from its
\* timer) has no timer pending, so nothing more is sent to it; a step runs
\* at most one timer, which then is no longer pending (it fires once), and
\* that step writes exactly one response, the 200 or 500 of the timer's own
\* request, and counts a response for no other request.
C16_AtMostOneResponse ==
    [][/\ Len(sent') <= 1
       /\ \A conn \in Conns :
              /\ responses[conn] <= 1
              /\ responses'[conn] <= 1
              /\ Cardinality(TimersOf(timers', conn)) <= 1
              /\ TimersOf(timers', conn) # {} => responses'[conn] = 0
       /\ \A i \in 1..Len(sent') :
              sent'[i].status \in {400, 404}
              => /\ timers' = timers
                 /\ TimersOf(timers', sent'[i].conn) = {}
                 /\ responses'[sent'[i].conn] = 1
       /\ Cardinality(timers \ timers') <= 1
       /\ \A t \in timers \ timers' :
              /\ timers' = timers \ {t}
              /\ Len(sent') = 1
              /\ WrittenBy(t, sent'[1])
              /\ responses[t.conn] = 0
              /\ responses'[t.conn] = 1
              /\ \A other \in Conns \ {t.conn} : responses'[other] = responses[other]
       /\ timers' = timers
          => \A conn \in Conns :
                 responses'[conn] # responses[conn] => TimersOf(timers, conn) = {}]_vars

\* the timer of the second connection's request fired before that of the
\* first, both requests being for the same job: the second is answered,
\* the first still waits with nothing sent to it
C16_Witness ==
    /\ Len(sent) = 1
    /\ sent[1].conn = 2
    /\ sent[1].status = 200
    /\ "parser" \in DOMAIN sent[1].body
    /\ sent[1].body.parser = Sale
    /\ timers = {ParserTimer(1, Sale, Sale)}
    /\ responses = [conn \in Conns |-> IF conn = 2 THEN 1 ELSE 0]

\* the positions of the entries of h that carry one of the messages
Carrying(h, messages) == {i \in 1..Len(h) : h[i].message \in messages}

\* the "start requested" entries among the first n ever pushed for a key
Starts(h, n) == Cardinality(Carrying(SubSeq(h, 1, n), {StartRequested}))

\* the completion entries among the first n ever pushed for a key
Completions(h, n) ==
    Cardinality(Carrying(SubSeq(h, 1, n), {ExecutionFailed, FinishedSuccessfully}))

\* for each name a /start_parser request may carry, the keys it spells
KeysSpelt == [name \in ParserNames |-> {k \in KeySet : Spells(name, k)}]

\* the /start_parser requests for job k that wait for their timer
InFlight(k) ==
    {t \in timers : t.route = "/start_parser" /\ k \in KeysSpelt[t.parserName]}

\* the responses the step writes to /start_parser requests for job k
AnsweredNow(k) ==
    {i \in 1..Len(sent') :
        "parser" \in DOMAIN sent'[i].body /\ k \in KeysSpelt[sent'[i].body.parser]}

\* the completion entries the step pushes for job k
CompletedNow(k) ==
    {n \in (Len(history[k]) + 1)..Len(history'[k]) :
        history'[k][n].message \in {ExecutionFailed, FinishedSuccessfully}}

\* C17: in every state and for every job, the start entries ever pushed
\* are as many as the completion entries ever pushed plus the requests
\* for the job still waiting for their timer; every completion entry comes
\* after a start entry not yet completed (in every prefix of what was
\* pushed, completions do not outnumber starts) and entries carry
\* increasing times; and a step pushes a completion entry for a job
\* exactly when it answers one /start_parser request for that job, so
\* that completions ever pushed and requests answered stay equal.
C17_StartsAndCompletions ==
    /\ [](\A k \in KeySet :
              LET h == history[k]
              IN  /\ Starts(h, Len(h)) =
                         Completions(h, Len(h)) + Cardinality(InFlight(k))
                  /\ Starts(h, Len(h)) + Completions(h, Len(h)) = Len(h)
                  /\ \A n \in 1..Len(h) : Completions(h, n) <= Starts(h, n)
                  /\ \A n \in 1..(Len(h) - 1) : h[n].ts < h[n + 1].ts)
    /\ [][\A k \in KeySet :
              /\ SubSeq(history'[k], 1, Len(history[k])) = history[k]
              /\ Cardinality(CompletedNow(k)) = Cardinality(AnsweredNow(k))
              /\ Cardinality(AnsweredNow(k)) =
                     Cardinality(InFlight(k) \ timers')]_vars

\* two requests for Sale were in flight and the timer of the later one
\* fired first: two starts, one completion, one request still waiting
C17_Witness ==
    /\ Cardinality(InFlight(Sale)) = 1
    /\ \E t \in InFlight(Sale) : t.conn = 1
    /\ Len(sent) = 1
    /\ sent[1].conn = 2
    /\ Len(history[Sale]) = 3
    /\ Starts(history[Sale], 3) = 2
    /\ Completions(history[Sale], 3) = 1
    /\ history[Sale][3].message = FinishedSuccessfully

\* the keys whose sequence the step changes
Changed == {k \in KeySet : mockLogs'[k] # mockLogs[k]}

\* C18: no step changes the sequence of more than one job, and a step that
\* receives a /start_parser request for job k, or runs the timer of one,
\* changes the sequence of k and of no other job.
C18_OneSequencePerAppend ==
    [][/\ Cardinality(Changed) <= 1
       /\ \A t \in Scheduled \cup Fired :
              \A k \in KeysSpelt[t.parserName] : Changed = {k}]_vars

\* the request for Sale was answered while one for CurrencyInfo waits:
\* CurrencyInfo's sequence still holds its start entry only
C18_Witness ==
    /\ sent = <<FinishedResponse(2, Sale)>>
    /\ timers = {ParserTimer(1, toLowerCase(CurrencyInfo), CurrencyInfo)}
    /\ Len(mockLogs[Sale]) = 2
    /\ mockLogs[CurrencyInfo] = <<Entry(0, StartRequested)>>
    /\ \A k \in KeySet \ {Sale, CurrencyInfo} : mockLogs[k] = <<>>

\* the 500 sent for a /start_parser request that named the job so
FailedResponse(conn, name) ==
    Response(conn, 500,
        [status |-> 500,
         message |-> <<Lit("Mock error during "), Str(name), Lit(" parsing")>>,
         parser |-> name])

\* the /start_parser request with the name as its parser parameter
ParserRequest(name) == Request("GET", "/start_parser", <<>>, [parser |-> name])

\* C19: the closure a /start_parser request schedules keeps the name as
\* the request spelt it (the step is the handling of no request with
\* another spelling), and the response its timer writes, 200 or 500,
\* carries that very spelling in its parser field and in its message,
\* while the entry of the same step goes to the canonical key.
C19_ResponseNamesAsRequested ==
    [][/\ \A t \in Scheduled :
              /\ StartParser(t.conn, ParserRequest(t.parserName))
              /\ \A req \in ParserRequests :
                     StartParser(t.conn, req)
                     => ~NoParser(req) /\ req.query["parser"] = t.parserName
       /\ \A t \in Fired :
              /\ sent' \in {<<FinishedResponse(t.conn, t.parserName)>>,
                             <<FailedResponse(t.conn, t.parserName)>>}
              /\ \A k \in KeysSpelt[t.parserName] :
                     /\ mockLogs'[k] # mockLogs[k]
                     /\ k # t.parserName => t.parserName \notin DOMAIN mockLogs']_vars

\* the request for SALE was answered 200 with the name in upper case, its
\* two entries being in the sequence of the key Sale
C19_Witness ==
    /\ sent = <<FinishedResponse(1, toUpperCase(Sale))>>
    /\ mockLogs[Sale] = <<Entry(0, StartRequested), Entry(1, FinishedSuccessfully)>>
    /\ toUpperCase(Sale) \notin DOMAIN mockLogs

====
